---- MODULE Spec2Model ----
(***************************************************************************)
(* A model of starcoder's GraphAutoencoder (ensemble.py): construction and *)
(* the depth-bounded forward pass, and of the field codecs (fields.py).    *)
(* Tensors are modelled row by row; the neural sub-modules (autoencoders,  *)
(* summarizers, projectors, field encoders) are uninterpreted functions,   *)
(* so a value is the term that says how it was computed, with its width.   *)
(* Spec constructs the model with the default base representation size,   *)
(* BaseSpec with any; FieldSpec runs one field object.                     *)
(***************************************************************************)
EXTENDS Integers, Sequences, FiniteSets, TLC

\* ------------------------------------------------------------------ bounds
MaxDepth == 2
MaxEdges == 2

\* Python's None (bottleneck_size of an empty shape sequence).
NONE == -1

\* The default of __init__'s argument base_entity_representation_size.
BaseSize == 8

\* The width of the zero base block forward puts first in a depth-0 input.
ZeroBaseWidth == 8

\* ------------------------------------------------------------------ schema
\* The schema family: entity types Person{name} and Doc{title}; relations
\* authored: Person -> Doc and cites: Doc -> Doc, any subset of which a
\* schema declares.
EntityTypes == <<"Person", "Doc">>
AllRelations == <<"authored", "cites">>
Source(r) == IF r = "authored" THEN "Person" ELSE "Doc"
Target(r) == "Doc"
Rows == 0..2

SeqFilter(s, S) == SelectSeq(s, LAMBDA x : x \in S)
Range(s) == {s[n] : n \in DOMAIN s}

data_fields(t) == IF t = "Person" THEN <<"name">> ELSE <<"title">>
\* schema.data_fields, and each field's type_name.
DataFields == <<"name", "title">>
type_name(f) == IF f = "name" THEN "categorical" ELSE "sequential"
output_size(f) == IF f = "name" THEN 2 ELSE 3

\* entity_type.relation_fields: the relations the type is the source of.
relation_fields(rels, t) == SeqFilter(AllRelations, {r \in rels : Source(r) = t})
\* entity_type.reverse_relation_fields: the relations the type is the target of.
reverse_relation_fields(rels, t) == SeqFilter(AllRelations, {r \in rels : Target(r) = t})

RECURSIVE SumSeq(_)
SumSeq(s) == IF s = <<>> THEN 0 ELSE Head(s) + SumSeq(Tail(s))

\* Width of a row given as a sequence of blocks.
Width(blocks) == SumSeq([n \in DOMAIN blocks |-> blocks[n].w])

ZeroBlock(w) == [k |-> "zero", w |-> w]

\* ------------------------------------------------------------------ state
VARIABLES
    pc,                 \* where the program is
    err,                \* why it failed, "" when it has not
    schema,             \* the relation names the schema declares
    base_entity_representation_size, \* self.base_entity_representation_size
    depth,              \* self.depth
    reverse_relations,  \* self.reverse_relations
    bottleneck_size,    \* self.bottleneck_size
    ae_input_sizes,     \* [type -> sequence of the input widths of its autoencoders]
    has_summarizers,    \* whether __init__ created the relation summarizers
    projector_sizes,    \* [type -> the input width of its projector]
    entities,           \* the batch: [row -> [type, val]]
    field_tensors,      \* [field -> its masks, indices, encodings and encoder calls]
    adjacencies,        \* the Adjacency mapping: [relation name -> set of <<i, j>>]
    cur_depth,          \* forward's loop variable depth
    cur_type,           \* the entity type of the current loop iteration, "" if none
    done_types,         \* the entity types already processed at cur_depth
    relation_reps,      \* [row of cur_type -> its relation summary blocks]
    autoencoder_inputs, \* [row -> the blocks of its latest autoencoder input]
    autoencoder_outputs,\* [row -> its latest reconstruction]
    bottlenecks,        \* [row -> its latest bottleneck]
    prev_bottlenecks,   \* the clone taken before the depth loop
    bver,               \* [row -> the depth that wrote bottlenecks[row]]
    pver,               \* [row -> the depth that wrote prev_bottlenecks[row]]
    reads,              \* the neighbour gathers done so far
    ae_used,            \* the autoencoder index used, per type and depth
    resized,            \* [row -> its projected representation]
    depth_start         \* the reconstructions and bottlenecks as the current depth began

gvars == <<pc, err, schema, base_entity_representation_size,
           depth, reverse_relations, bottleneck_size, ae_input_sizes,
           has_summarizers, projector_sizes, entities, field_tensors,
           adjacencies, cur_depth, cur_type, done_types,
           relation_reps, autoencoder_inputs, autoencoder_outputs, bottlenecks,
           prev_bottlenecks, bver, pver, reads, ae_used, resized, depth_start>>

\* The state of one field object of fields.py.
VARIABLES
    fkind,              \* the field's class, "" before it is constructed
    empty,              \* Field.empty
    lookup,             \* _lookup: value -> index
    rlookup,            \* _rlookup: index -> value
    max_length,         \* SequentialField.max_length
    max_val,            \* NumericField.max_val
    min_val,            \* NumericField.min_val
    categories,         \* DistributionField.categories
    last,               \* the last call on the field and whether it raised
    prev,               \* the call before it, with the statistics it left
    rt                  \* the last encode/decode/encode round trip

fvars == <<fkind, empty, lookup, rlookup, max_length, max_val, min_val, categories,
           last, prev, rt>>

vars == <<gvars, fvars>>

Nothing == [i \in {} |-> 0]

\* Python's None as a number of a NumericField.
NoNumber == [ty |-> "none", n |-> 0]
NoCall == [op |-> "none"]

FieldInit ==
    /\ fkind = ""
    /\ empty = TRUE
    /\ lookup = Nothing
    /\ rlookup = Nothing
    /\ max_length = 0
    /\ max_val = NoNumber
    /\ min_val = NoNumber
    /\ categories = <<>>
    /\ last = NoCall
    /\ prev = NoCall
    /\ rt = NoCall

GraphInit ==
    /\ pc = "new"
    /\ err = ""
    /\ schema = {}
    /\ base_entity_representation_size = BaseSize
    /\ depth = 0
    /\ reverse_relations = FALSE
    /\ bottleneck_size = NONE
    /\ ae_input_sizes = Nothing
    /\ has_summarizers = FALSE
    /\ projector_sizes = Nothing
    /\ entities = Nothing
    /\ field_tensors = Nothing
    /\ adjacencies = Nothing
    /\ cur_depth = 0
    /\ cur_type = ""
    /\ done_types = {}
    /\ relation_reps = Nothing
    /\ autoencoder_inputs = Nothing
    /\ autoencoder_outputs = Nothing
    /\ bottlenecks = Nothing
    /\ prev_bottlenecks = Nothing
    /\ bver = Nothing
    /\ pver = Nothing
    /\ reads = {}
    /\ ae_used = {}
    /\ resized = Nothing
    /\ depth_start = Nothing

Init == GraphInit /\ FieldInit

\* ------------------------------------------------------------ construction
Shapes == {<<>>, <<2>>}

\* self.bottleneck_size = None if autoencoder_shapes in [[], None] else autoencoder_shapes[-1]
BottleneckOf(shapes) == IF shapes = <<>> THEN NONE ELSE shapes[Len(shapes)]

\* self.boundary_sizes[entity_type.name]
boundary_sizes(base, t) ==
    base + SumSeq([n \in DOMAIN data_fields(t) |-> output_size(data_fields(t)[n])])

\* The number of bottleneck-wide blocks __init__ adds to a type's boundary size.
RelationBlocks(rels, rev, t) ==
    Len(relation_fields(rels, t)) + (IF rev THEN Len(reverse_relation_fields(rels, t)) ELSE 0)

\* boundary_size += self.bottleneck_size raises TypeError when bottleneck_size is
\* None; the statement runs once per (reverse) relation of a type, at any depth.
ConstructFails(rels, shapes, rev) ==
    /\ BottleneckOf(shapes) = NONE
    /\ \E n \in DOMAIN EntityTypes : RelationBlocks(rels, rev, EntityTypes[n]) > 0

\* The input widths of a type's autoencoders: index 0 takes the boundary size, the
\* d further ones the boundary size plus one bottleneck per relation block.
AutoencoderSizes(rels, d, shapes, rev, base, t) ==
    [k \in 1..(d + 1) |->
        IF k = 1 THEN boundary_sizes(base, t)
        ELSE boundary_sizes(base, t) + RelationBlocks(rels, rev, t) * BottleneckOf(shapes)]

\* The input width of a type's projector: the boundary size, plus the relation
\* blocks when the model is built with depth > 0.
ProjectorSize(rels, d, shapes, rev, base, t) ==
    IF d > 0
    THEN boundary_sizes(base, t) + RelationBlocks(rels, rev, t) * BottleneckOf(shapes)
    ELSE boundary_sizes(base, t)

Construct(rels, d, shapes, rev, base) ==
    /\ pc = "new"
    /\ schema' = rels
    /\ base_entity_representation_size' = base
    /\ depth' = d
    /\ reverse_relations' = rev
    /\ bottleneck_size' = BottleneckOf(shapes)
    /\ IF ConstructFails(rels, shapes, rev)
       THEN /\ pc' = "failed"
            /\ err' = "TypeError"
            /\ UNCHANGED <<ae_input_sizes, has_summarizers, projector_sizes>>
       ELSE /\ pc' = "built"
            /\ err' = ""
            /\ ae_input_sizes' =
                 [t \in Range(EntityTypes) |-> AutoencoderSizes(rels, d, shapes, rev, base, t)]
            /\ has_summarizers' = (d > 0)
            /\ projector_sizes' =
                 [t \in Range(EntityTypes) |-> ProjectorSize(rels, d, shapes, rev, base, t)]
    /\ UNCHANGED <<entities, field_tensors, adjacencies, cur_depth, cur_type, done_types, relation_reps,
                   autoencoder_inputs, autoencoder_outputs, bottlenecks, prev_bottlenecks,
                   bver, pver, reads, ae_used, resized, depth_start>>
    /\ UNCHANGED fvars

\* model.depth = d: the attribute forward reads is public and may be raised after
\* construction (forward's "reusing final autoencoder" branch).
SetDepth(d) ==
    /\ pc = "built"
    /\ d # depth
    /\ depth' = d
    /\ UNCHANGED <<pc, err, schema, base_entity_representation_size,
                   reverse_relations, bottleneck_size, ae_input_sizes,
                   has_summarizers, projector_sizes, entities, field_tensors,
                   adjacencies, cur_depth, cur_type, done_types,
                   relation_reps, autoencoder_inputs, autoencoder_outputs, bottlenecks,
                   prev_bottlenecks, bver, pver, reads, ae_used, resized, depth_start>>
    /\ UNCHANGED fvars

\* ------------------------------------------------------------------ inputs
\* A NaN entry of a column.
NaN == -2

\* The batches forward is run on: rows 0..2 with an entity type and the entry of
\* the type's one field in its column: the index of a category (0 the missing
\* one) or NaN for name, the leading token of the sequence for title (0 when
\* there is none). A field that is not of the row's type has the absent entry.
BatchA == [i \in Rows |-> [type |-> IF i < 2 THEN "Person" ELSE "Doc",
                          val  |-> IF i = 1 THEN 2 ELSE 1]]
BatchB == [i \in Rows |-> [type |-> IF i < 1 THEN "Person" ELSE "Doc",
                          val  |-> IF i = 1 THEN 0 ELSE 1]]
BatchC == [i \in Rows |-> [type |-> IF i < 2 THEN "Person" ELSE "Doc",
                          val  |-> IF i = 0 THEN NaN ELSE 0]]
Batches == {BatchA, BatchB, BatchC}

\* The edges a relation can have in a batch: from a row of its source type to a
\* row of its target type.
Candidates(batch, r) ==
    {e \in Rows \X Rows : batch[e[1]].type = Source(r) /\ batch[e[2]].type = Target(r)}

\* The Adjacency mappings of a batch: a matrix for some of the schema's relations
\* (a relation may be left out of the mapping), MaxEdges edges at most.
AdjacenciesOf(batch, rels) ==
    UNION { { [r \in K |-> IF r = "authored" THEN ea ELSE ec] :
                ea \in (IF "authored" \in K
                        THEN SUBSET Candidates(batch, "authored") ELSE {{}}),
                ec \in (IF "cites" \in K
                        THEN SUBSET Candidates(batch, "cites") ELSE {{}}) }
            : K \in SUBSET rels }

EdgeCount(adj) == SumSeq([n \in DOMAIN AllRelations |->
                    IF AllRelations[n] \in DOMAIN adj
                    THEN Cardinality(adj[AllRelations[n]]) ELSE 0])

\* --------------------------------------------------------- neural sub-modules
\* Autoencoder.forward: the reconstruction (as wide as the input) and the
\* bottleneck of autoencoder idx of type t on input row x.
AutoencoderOut(t, idx, x) == [k |-> "rec", t |-> t, idx |-> idx, x |-> x, w |-> Width(x)]
AutoencoderBn(t, idx, x, bs) == [k |-> "bn", t |-> t, idx |-> idx, x |-> x, w |-> bs]

\* A field encoder on a present value.
FieldEncoder(f, v) == [k |-> "enc", f |-> f, v |-> v, w |-> output_size(f)]

\* A relation summarizer ("target": relation_target_summarizers[rel], "source":
\* relation_source_summarizers[rel]) on the selected bottleneck rows.
Summarize(side, rel, obns, bs) ==
    [k |-> "summ", side |-> side, rel |-> rel, obns |-> obns, w |-> bs]

\* A projector on a row of its type's autoencoder output.
Projector(t, x) == [k |-> "proj", t |-> t, x |-> x]

\* A field decoder on a projected row.
FieldDecoder(f, x) == [k |-> "dec", f |-> f, x |-> x]

\* ------------------------------------------------------------------ forward
RowSeq == [n \in 1..Cardinality(Rows) |-> n - 1]

\* entity_indices[t]: ascending.
entity_indices(batch, t) == SeqFilter(RowSeq, {i \in Rows : batch[i].type = t})

\* field_masks[f] at a row e of the batch: a sequential or text field is present
\* when its leading token is not 0, any other field when its entry is not NaN.
field_masks(e, f) ==
    /\ f \in Range(data_fields(e.type))
    /\ IF type_name(f) \in {"sequential", "text"} THEN e.val # 0 ELSE e.val # NaN

\* field_indices[f]: the rows of the batch where the mask is true, ascending.
field_indices(batch, f) == SeqFilter(RowSeq, {i \in Rows : field_masks(batch[i], f)})

field_encodings_unmasked(e, f) == FieldEncoder(f, e.val)

\* field_encodings[f] at a row e: zero unless the field is present at the row.
field_encodings(e, f) ==
    IF field_masks(e, f) THEN FieldEncoder(f, e.val) ELSE ZeroBlock(output_size(f))

\* The calls of a field's encoder, each with the rows whose values it is given:
\* one call on the rows of indices, none when there are none.
encoder_calls(indices) == IF Len(indices) > 0 THEN {Range(indices)} ELSE {}

\* What forward computes for field f over the whole batch.
FieldTensors(batch, f) ==
    [masks         |-> [i \in Rows |-> field_masks(batch[i], f)],
     indices       |-> field_indices(batch, f),
     encodings     |-> [i \in Rows |-> field_encodings(batch[i], f)],
     encoder_calls |-> encoder_calls(field_indices(batch, f))]

\* The depth-0 autoencoder input of a row e: the zero base block, the encodings
\* of the type's fields, the empty block.
Depth0Input(e) ==
    <<ZeroBlock(ZeroBaseWidth)>>
    \o [n \in DOMAIN data_fields(e.type) |-> field_encodings(e, data_fields(e.type)[n])]
    \o <<ZeroBlock(0)>>

\* tensor.narrow(1, 0, n)
Narrow(x, n) == IF x.w = n THEN x ELSE [k |-> "narrow", x |-> x, w |-> n]

LastDepthOffByOne(d) == d + 1

\* The last depth of forward's loop, range(1, self.depth + 1).
LastDepth(d) == d

\* The width of the depth-0 input forward assembles for the rows of type t (the
\* same for every row, present field or not).
Depth0Width(t) == Width(Depth0Input([type |-> t, val |-> 0]))

\* forward up to the depth loop: indices, field encodings, the depth-0 inputs, the
\* zero bottleneck tensor (a TypeError when bottleneck_size is None), the depth-0
\* autoencoders (a RuntimeError when an input is not as wide as the autoencoder's
\* input layer) and the clone of the bottlenecks.
ForwardBegin(batch, adj) ==
    /\ pc = "built"
    /\ entities' = batch
    /\ adjacencies' = adj
    /\ field_tensors' = [f \in Range(DataFields) |-> FieldTensors(batch, f)]
    /\ autoencoder_inputs' = [i \in Rows |-> Depth0Input(batch[i])]
    /\ IF bottleneck_size = NONE
       THEN /\ pc' = "error"
            /\ err' = "TypeError"
            /\ UNCHANGED <<autoencoder_outputs, bottlenecks, prev_bottlenecks, bver, pver,
                           ae_used, cur_depth, depth_start>>
       ELSE IF \E n \in DOMAIN EntityTypes :
                  Depth0Width(EntityTypes[n]) # ae_input_sizes[EntityTypes[n]][1]
       THEN /\ pc' = "error"
            /\ err' = "RuntimeError"
            /\ UNCHANGED <<autoencoder_outputs, bottlenecks, prev_bottlenecks, bver, pver,
                           ae_used, cur_depth, depth_start>>
       ELSE /\ autoencoder_outputs' =
                 [i \in Rows |-> AutoencoderOut(batch[i].type, 0, Depth0Input(batch[i]))]
            /\ bottlenecks' =
                 [i \in Rows |-> AutoencoderBn(batch[i].type, 0, Depth0Input(batch[i]),
                                               bottleneck_size)]
            /\ bver' = [i \in Rows |-> 0]
            /\ prev_bottlenecks' = bottlenecks'
            /\ pver' = bver'
            /\ depth_start' = [outputs |-> autoencoder_outputs', bottlenecks |-> bottlenecks']
            /\ ae_used' = {[t |-> EntityTypes[n], d |-> 0, idx |-> 0] : n \in DOMAIN EntityTypes}
            /\ err' = ""
            /\ IF LastDepth(depth) < 1
               THEN pc' = "project" /\ cur_depth' = 0
               ELSE pc' = "loop" /\ cur_depth' = 1
    /\ UNCHANGED <<schema, base_entity_representation_size,
                   depth, reverse_relations, bottleneck_size, ae_input_sizes,
                   has_summarizers, projector_sizes, cur_type, done_types, relation_reps,
                   reads, resized>>
    /\ UNCHANGED fvars

SummarySourceLive(snapshot, live) == live

\* The tensor relation summaries index_select from, with the depth that wrote
\* each row: snapshot is prev_bottlenecks, live is bottlenecks.
SummarySource(snapshot, live) == snapshot

related_indices_column(adj, r, i) == {j \in Rows : <<j, i>> \in adj[r]}

\* index_space.masked_select(adjacencies[rel_name][index]): row index of the matrix.
related_indices(adj, r, i) == {j \in Rows : <<i, j>> \in adj[r]}

SummaryBlockUnguarded(side, r, obns, bs) == Summarize(side, r, obns, bs)

\* relation_reps[i]: zero unless the row has related rows, else their summary.
SummaryBlock(side, r, obns, bs) ==
    IF Len(obns) > 0 THEN Summarize(side, r, obns, bs) ELSE ZeroBlock(bs)

\* One relation's block of row i: zero when the relation is not in adjacencies.
RelationBlock(side, r, i, adj, tensor, bs) ==
    IF r \notin DOMAIN adj THEN ZeroBlock(bs)
    ELSE LET idx == SeqFilter(RowSeq, related_indices(adj, r, i))
         IN  SummaryBlock(side, r, [n \in DOMAIN idx |-> tensor[idx[n]]], bs)

OtherRepsIncomingFirst(i, t, rels, rev, adj, tensor, bs) ==
    (IF rev
     THEN [n \in DOMAIN reverse_relation_fields(rels, t) |->
             RelationBlock("source", reverse_relation_fields(rels, t)[n], i, adj, tensor, bs)]
     ELSE <<>>)
    \o [n \in DOMAIN relation_fields(rels, t) |->
          RelationBlock("target", relation_fields(rels, t)[n], i, adj, tensor, bs)]

\* other_reps of row i of type t: the outgoing relations' blocks, summarized by
\* relation_target_summarizers, then with reverse_relations the incoming ones',
\* summarized by relation_source_summarizers.
OtherReps(i, t, rels, rev, adj, tensor, bs) ==
    [n \in DOMAIN relation_fields(rels, t) |->
        RelationBlock("target", relation_fields(rels, t)[n], i, adj, tensor, bs)]
    \o (IF rev
        THEN [n \in DOMAIN reverse_relation_fields(rels, t) |->
                RelationBlock("source", reverse_relation_fields(rels, t)[n], i, adj, tensor, bs)]
        ELSE <<>>)

\* The gathers OtherReps does for row i at depth d, with the rows read and the
\* depth that wrote each.
Gathers(d, i, t, rels, rev, adj, ver) ==
    { [d |-> d, row |-> i, rel |-> r, dir |-> "out",
       nb |-> related_indices(adj, r, i),
       src |-> {<<j, ver[j]>> : j \in related_indices(adj, r, i)}]
      : r \in Range(relation_fields(rels, t)) \cap DOMAIN adj }
    \cup
    { [d |-> d, row |-> i, rel |-> r, dir |-> "in",
       nb |-> related_indices(adj, r, i),
       src |-> {<<j, ver[j]>> : j \in related_indices(adj, r, i)}]
      : r \in (IF rev THEN Range(reverse_relation_fields(rels, t)) ELSE {}) \cap DOMAIN adj }

\* autoencoder_inputs of a row: its previous reconstruction narrowed to the
\* depth-0 autoencoder's output size, then other_reps (an empty block if none).
DepthInput(out, n, other_reps) ==
    <<Narrow(out, n)>> \o (IF other_reps = <<>> THEN <<ZeroBlock(0)>> ELSE other_reps)

\* The autoencoder forward uses at depth d of n constructed: the last one when d
\* is beyond them.
AutoencoderIndex(d, n) == IF d > n - 1 THEN n - 1 ELSE d

\* The rows of type t in the batch forward runs on.
RowsOf(t) == Range(entity_indices(entities, t))

\* One iteration of the loop over entity types begins: the type's summarizers are
\* looked up (an AttributeError when __init__ made none).
BeginType(t) ==
    /\ pc = "loop"
    /\ cur_type = ""
    /\ t \notin done_types
    /\ IF ~has_summarizers /\ RelationBlocks(schema, reverse_relations, t) > 0
       THEN /\ pc' = "error"
            /\ err' = "AttributeError"
            /\ UNCHANGED <<cur_type, relation_reps>>
       ELSE /\ cur_type' = t
            /\ relation_reps' = Nothing
            /\ UNCHANGED <<pc, err>>
    /\ UNCHANGED <<schema, base_entity_representation_size,
                   depth, reverse_relations, bottleneck_size, ae_input_sizes,
                   has_summarizers, projector_sizes, entities, field_tensors,
                   adjacencies, cur_depth,
                   done_types, autoencoder_inputs, autoencoder_outputs, bottlenecks,
                   prev_bottlenecks, bver, pver, reads, ae_used, resized, depth_start>>
    /\ UNCHANGED fvars

\* The relation summaries of one row of the current type.
GatherRow(i) ==
    /\ pc = "loop"
    /\ cur_type # ""
    /\ i \in RowsOf(cur_type)
    /\ i \notin DOMAIN relation_reps
    /\ LET source == SummarySource([val |-> prev_bottlenecks, ver |-> pver],
                                   [val |-> bottlenecks, ver |-> bver])
       IN  /\ relation_reps' =
                [j \in DOMAIN relation_reps \cup {i} |->
                    IF j = i
                    THEN OtherReps(i, cur_type, schema, reverse_relations, adjacencies,
                                   source.val, bottleneck_size)
                    ELSE relation_reps[j]]
           /\ reads' = reads \cup Gathers(cur_depth, i, cur_type, schema, reverse_relations,
                                          adjacencies, source.ver)
    /\ UNCHANGED <<pc, err, schema, base_entity_representation_size,
                   depth, reverse_relations, bottleneck_size, ae_input_sizes,
                   has_summarizers, projector_sizes, entities, field_tensors,
                   adjacencies, cur_depth,
                   cur_type, done_types, autoencoder_inputs, autoencoder_outputs,
                   bottlenecks, prev_bottlenecks, bver, pver, ae_used, resized, depth_start>>
    /\ UNCHANGED fvars

\* The current type's autoencoder on its assembled inputs, and the scatter of the
\* new bottlenecks; after the last type the loop goes to the next depth.
Autoencode ==
    /\ pc = "loop"
    /\ cur_type # ""
    /\ DOMAIN relation_reps = RowsOf(cur_type)
    /\ LET t == cur_type
           n == Len(ae_input_sizes[t])
           idx == AutoencoderIndex(cur_depth, n)
           input(i) == DepthInput(autoencoder_outputs[i], ae_input_sizes[t][1],
                                  relation_reps[i])
           all_done == done_types \cup {t} = Range(EntityTypes)
       IN  /\ autoencoder_inputs' =
                [i \in Rows |-> IF i \in RowsOf(t) THEN input(i) ELSE autoencoder_inputs[i]]
           /\ ae_used' = ae_used \cup {[t |-> t, d |-> cur_depth, idx |-> idx]}
           /\ IF \E i \in RowsOf(t) : Width(input(i)) # ae_input_sizes[t][idx + 1]
              THEN /\ pc' = "error"
                   /\ err' = "RuntimeError"
                   /\ UNCHANGED <<autoencoder_outputs, bottlenecks, bver, done_types,
                                  cur_type, cur_depth, depth_start>>
              ELSE /\ autoencoder_outputs' =
                        [i \in Rows |-> IF i \in RowsOf(t) THEN AutoencoderOut(t, idx, input(i))
                                        ELSE autoencoder_outputs[i]]
                   /\ bottlenecks' =
                        [i \in Rows |-> IF i \in RowsOf(t)
                                        THEN AutoencoderBn(t, idx, input(i), bottleneck_size)
                                        ELSE bottlenecks[i]]
                   /\ bver' = [i \in Rows |-> IF i \in RowsOf(t) THEN cur_depth ELSE bver[i]]
                   /\ cur_type' = ""
                   /\ err' = ""
                   /\ IF ~all_done
                      THEN /\ done_types' = done_types \cup {t}
                           /\ UNCHANGED <<pc, cur_depth, depth_start>>
                      ELSE /\ done_types' = {}
                           /\ depth_start' = [outputs |-> autoencoder_outputs',
                                              bottlenecks |-> bottlenecks']
                           /\ IF cur_depth >= LastDepth(depth)
                              THEN pc' = "project" /\ UNCHANGED cur_depth
                              ELSE cur_depth' = cur_depth + 1 /\ UNCHANGED pc
    /\ UNCHANGED <<schema, base_entity_representation_size,
                   depth, reverse_relations, bottleneck_size, ae_input_sizes,
                   has_summarizers, projector_sizes, entities, field_tensors,
                   adjacencies, relation_reps,
                   prev_bottlenecks, pver, reads, resized>>
    /\ UNCHANGED fvars

\* The projection of every type's final reconstruction to the shared size; the
\* decoders then run on resized and forward returns.
Project ==
    /\ pc = "project"
    /\ IF \E i \in Rows : autoencoder_outputs[i].w # projector_sizes[entities[i].type]
       THEN pc' = "error" /\ err' = "RuntimeError" /\ UNCHANGED resized
       ELSE /\ pc' = "done"
            /\ err' = ""
            /\ resized' = [i \in Rows |-> Projector(entities[i].type, autoencoder_outputs[i])]
    /\ UNCHANGED <<schema, base_entity_representation_size,
                   depth, reverse_relations, bottleneck_size, ae_input_sizes,
                   has_summarizers, projector_sizes, entities, field_tensors,
                   adjacencies, cur_depth,
                   cur_type, done_types, relation_reps, autoencoder_inputs,
                   autoencoder_outputs, bottlenecks, prev_bottlenecks, bver, pver, reads,
                   ae_used, depth_start>>
    /\ UNCHANGED fvars

\* reconstructions[f][i]: field f's decoder on the projected row.
reconstructions(f, i) == FieldDecoder(f, resized[i])

Next ==
    \/ \E rels \in SUBSET Range(AllRelations), d \in 0..MaxDepth, shapes \in Shapes,
          rev \in BOOLEAN : Construct(rels, d, shapes, rev, BaseSize)
    \/ \E d \in 0..MaxDepth : SetDepth(d)
    \/ \E batch \in Batches : \E adj \in AdjacenciesOf(batch, schema) :
          EdgeCount(adj) <= MaxEdges /\ ForwardBegin(batch, adj)
    \/ \E n \in DOMAIN EntityTypes : BeginType(EntityTypes[n])
    \/ \E i \in Rows : GatherRow(i)
    \/ Autoencode
    \/ Project

Spec == Init /\ [][Next]_vars

\* The same program constructed with any base_entity_representation_size.
BaseSizes == {4, BaseSize}

BaseNext ==
    \/ \E rels \in SUBSET Range(AllRelations), d \in 0..MaxDepth, shapes \in Shapes,
          rev \in BOOLEAN, base \in BaseSizes : Construct(rels, d, shapes, rev, base)
    \/ \E d \in 0..MaxDepth : SetDepth(d)
    \/ \E batch \in Batches : \E adj \in AdjacenciesOf(batch, schema) :
          EdgeCount(adj) <= MaxEdges /\ ForwardBegin(batch, adj)
    \/ \E n \in DOMAIN EntityTypes : BeginType(EntityTypes[n])
    \/ \E i \in Rows : GatherRow(i)
    \/ Autoencode
    \/ Project

BaseSpec == Init /\ [][BaseNext]_vars

\* ------------------------------------------------------------------ fields
MaxLen == 2

Chars == {"a", "b"}
Cats == {"a", "b", "c"}
\* The Missing() instance CategoricalField.__init__ creates, and the None key of
\* SequentialField.__init__.
MissingKey == "<Missing>"
NoneKey == "<None>"

FieldKinds == {"numeric", "integer", "distribution", "categorical", "sequential"}

\* Raw numeric values: an int, a float, a numeric string such as "2", and a
\* string float() cannot interpret.
Numbers == {[ty |-> "int", n |-> 1], [ty |-> "int", n |-> 2], [ty |-> "float", n |-> 1],
            [ty |-> "str", n |-> 2], [ty |-> "word", n |-> 0]}

Injective(q) == \A m, n \in DOMAIN q : q[m] = q[n] => m = n

\* The raw values of a field kind: a category, a sequence of characters, the keys
\* of a distribution in iteration order, a number.
Values(kind) ==
    CASE kind = "categorical" -> Cats
      [] kind = "sequential" -> UNION {[1..n -> Chars] : n \in 0..MaxLen}
      [] kind = "distribution" ->
            {q \in UNION {[1..n -> Cats] : n \in 0..MaxLen} : Injective(q)}
      [] kind = "numeric" -> Numbers
      [] OTHER -> {[ty |-> "int", n |-> 1], [ty |-> "int", n |-> 2]}

Put(f, key, val) == [x \in DOMAIN f \cup {key} |-> IF x = key THEN val ELSE f[x]]

\* The accumulated statistics of the field.
Stats == [empty |-> empty, lookup |-> lookup, rlookup |-> rlookup,
          max_length |-> max_length, max_val |-> max_val, min_val |-> min_val,
          categories |-> categories]

Called(call) ==
    IF call.op = "none" THEN NoCall
    ELSE [op |-> call.op, v |-> call.v, raised |-> call.raised, stats |-> Stats]

\* __init__ of the field classes.
NewField(kind) ==
    /\ fkind = ""
    /\ fkind' = kind
    /\ empty' = TRUE
    /\ lookup' = (CASE kind = "categorical" -> [x \in {MissingKey} |-> 0]
                    [] kind = "sequential" -> [x \in {NoneKey} |-> 0]
                    [] OTHER -> Nothing)
    /\ rlookup' = (CASE kind = "categorical" -> [x \in {0} |-> MissingKey]
                     [] kind = "sequential" -> [x \in {0} |-> NoneKey]
                     [] OTHER -> Nothing)
    /\ max_length' = 0
    /\ max_val' = NoNumber
    /\ min_val' = NoNumber
    /\ categories' = <<>>
    /\ last' = [op |-> "new", v |-> kind, raised |-> FALSE]
    /\ prev' = NoCall
    /\ rt' = NoCall
    /\ UNCHANGED gvars

ObserveKeyAssign(tables, v) ==
    LET i == Cardinality(DOMAIN tables.lookup)
    IN  [lookup |-> Put(tables.lookup, v, i), rlookup |-> Put(tables.rlookup, i, v)]

\* i = self._lookup.setdefault(v, len(self._lookup)); self._rlookup[i] = v
ObserveKey(tables, v) ==
    LET i == IF v \in DOMAIN tables.lookup THEN tables.lookup[v]
             ELSE Cardinality(DOMAIN tables.lookup)
    IN  [lookup |-> Put(tables.lookup, v, i), rlookup |-> Put(tables.rlookup, i, v)]

RECURSIVE ObserveKeys(_, _)
ObserveKeys(tables, vs) ==
    IF vs = <<>> THEN tables ELSE ObserveKeys(ObserveKey(tables, Head(vs)), Tail(vs))

\* if k not in self.categories: self.categories.append(k), for each key of v.
RECURSIVE ObserveCategories(_, _)
ObserveCategories(cs, ks) ==
    IF ks = <<>> THEN cs
    ELSE ObserveCategories(IF Head(ks) \in Range(cs) THEN cs ELSE Append(cs, Head(ks)),
                           Tail(ks))

\* Python's max(a, b) and min(a, b): a unless b is greater (smaller).
PyMax(a, b) == IF b.n > a.n THEN b ELSE a
PyMin(a, b) == IF b.n < a.n THEN b ELSE a

\* NumericField._observe_value raises: float(v) on a string that is no number,
\* and max(self.max_val, v) (the raw v, not retval) on a string.
NumericRaises(v) == v.ty = "word" \/ (max_val # NoNumber /\ v.ty = "str")

\* Field.observe_value(v) of the field's class.
ObserveValue(v) ==
    /\ fkind # ""
    /\ v \in Values(fkind)
    /\ empty' = FALSE
    /\ prev' = Called(last)
    /\ rt' = rt
    /\ fkind' = fkind
    /\ CASE fkind = "numeric" ->
              /\ last' = [op |-> "observe", v |-> v, raised |-> NumericRaises(v)]
              /\ IF NumericRaises(v)
                 THEN UNCHANGED <<max_val, min_val>>
                 ELSE /\ max_val' = IF max_val = NoNumber THEN [ty |-> "float", n |-> v.n]
                                    ELSE PyMax(max_val, v)
                      /\ min_val' = IF min_val = NoNumber THEN [ty |-> "float", n |-> v.n]
                                    ELSE PyMin(min_val, v)
              /\ UNCHANGED <<lookup, rlookup, max_length, categories>>
         [] fkind = "distribution" ->
              /\ last' = [op |-> "observe", v |-> v, raised |-> FALSE]
              /\ categories' = ObserveCategories(categories, v)
              /\ UNCHANGED <<lookup, rlookup, max_length, max_val, min_val>>
         [] fkind = "categorical" ->
              /\ last' = [op |-> "observe", v |-> v, raised |-> FALSE]
              /\ lookup' = ObserveKey([lookup |-> lookup, rlookup |-> rlookup], v).lookup
              /\ rlookup' = ObserveKey([lookup |-> lookup, rlookup |-> rlookup], v).rlookup
              /\ UNCHANGED <<max_length, max_val, min_val, categories>>
         [] fkind = "sequential" ->
              /\ last' = [op |-> "observe", v |-> v, raised |-> FALSE]
              /\ lookup' = ObserveKeys([lookup |-> lookup, rlookup |-> rlookup], v).lookup
              /\ rlookup' = ObserveKeys([lookup |-> lookup, rlookup |-> rlookup], v).rlookup
              /\ max_length' = IF Len(v) > max_length THEN Len(v) ELSE max_length
              /\ UNCHANGED <<max_val, min_val, categories>>
         [] OTHER ->
              /\ last' = [op |-> "observe", v |-> v, raised |-> FALSE]
              /\ UNCHANGED <<lookup, rlookup, max_length, max_val, min_val, categories>>
    /\ UNCHANGED gvars

Raised == [ok |-> FALSE]
Returned(x) == [ok |-> TRUE, val |-> x]

\* CategoricalField.encode: self._lookup.get(v, None).
CategoricalEncode(v) == Returned(IF v \in DOMAIN lookup THEN lookup[v] ELSE NONE)

\* CategoricalField.decode: raises unless v is in _rlookup.
CategoricalDecode(x) == IF x \in DOMAIN rlookup THEN Returned(rlookup[x]) ELSE Raised

\* SequentialField.encode: [self._lookup[e] for e in v], a KeyError on an
\* element never observed.
SequentialEncode(v) ==
    IF \A n \in DOMAIN v : v[n] \in DOMAIN lookup
    THEN Returned([n \in DOMAIN v |-> lookup[v[n]]])
    ELSE Raised

\* SequentialField.decode: the filter "e not in [Missing.value, Unknown.value]"
\* raises for the first element (Missing has no attribute value, and Unknown is
\* not defined), which decode turns into its own exception; only the empty
\* sequence decodes, to the empty string.
SequentialDecode(x) == IF Len(x) > 0 THEN Raised ELSE Returned(<<>>)

Encode(v) == IF fkind = "categorical" THEN CategoricalEncode(v) ELSE SequentialEncode(v)
Decode(x) == IF fkind = "categorical" THEN CategoricalDecode(x) ELSE SequentialDecode(x)

\* Every key of the raw value v is in the lookup table (v was observed).
Observed(v) == IF fkind = "categorical" THEN v \in DOMAIN lookup
               ELSE \A n \in DOMAIN v : v[n] \in DOMAIN lookup

\* encode(decode(encode(v))) on the field as it stands.
RoundTrip(v) ==
    /\ fkind \in {"categorical", "sequential"}
    /\ v \in Values(fkind)
    /\ LET e1 == Encode(v)
           d == Decode(e1.val)
           e2 == Encode(d.val)
       IN  rt' = IF ~e1.ok THEN [op |-> "roundtrip", v |-> v, raised |-> TRUE, at |-> "encode",
                       known |-> Observed(v)]
                 ELSE IF ~d.ok
                 THEN [op |-> "roundtrip", v |-> v, raised |-> TRUE, at |-> "decode",
                       known |-> Observed(v)]
                 ELSE IF ~e2.ok
                 THEN [op |-> "roundtrip", v |-> v, raised |-> TRUE, at |-> "encode again",
                       known |-> Observed(v)]
                 ELSE [op |-> "roundtrip", v |-> v, raised |-> FALSE,
                       first |-> e1.val, again |-> e2.val,
                       known |-> Observed(v)]
    /\ last' = [op |-> "roundtrip", v |-> v, raised |-> rt'.raised]
    /\ prev' = Called(last)
    /\ UNCHANGED <<fkind, empty, lookup, rlookup, max_length, max_val, min_val, categories>>
    /\ UNCHANGED gvars

FieldNext ==
    \/ \E kind \in FieldKinds : NewField(kind)
    \/ \E v \in Values(fkind) : ObserveValue(v)
    \/ \E v \in Values(fkind) : RoundTrip(v)

FieldSpec == Init /\ [][FieldNext]_vars

\* ------------------------------------------------------------------ claims
Built == pc \notin {"new", "failed"}
\* The depth the model was constructed with.
ConstructedDepth == IF pc = "failed" THEN depth ELSE Len(ae_input_sizes["Person"]) - 1

\* C1: at every depth d >= 1 the relation summaries read the bottleneck rows as
\* they stood at the end of depth d-1: during depth d prev_bottlenecks is the
\* tensor depth d-1 produced, and every row read was written by depth d-1.
C1_SnapshotOfPreviousDepth ==
    /\ pc = "loop" => prev_bottlenecks = depth_start.bottlenecks
    /\ \A rd \in reads : \A s \in rd.src : s[2] = rd.d - 1
\* The depth-0 bottleneck and the projection of a row, from the row's own type
\* and field value alone.
OwnBottleneck(e) == AutoencoderBn(e.type, 0, Depth0Input(e), bottleneck_size)
OwnProjection(e) == Projector(e.type, AutoencoderOut(e.type, 0, Depth0Input(e)))

\* The relations whose blocks a type's depth input holds, in block order.
DeclaredRelations(t) ==
    relation_fields(schema, t)
    \o (IF reverse_relations THEN reverse_relation_fields(schema, t) ELSE <<>>)
NoEdges(r) == r \notin DOMAIN adjacencies \/ adjacencies[r] = {}
\* The Adjacency with an all-false matrix for every relation it leaves out.
Completed(adj) == [r \in schema |-> IF r \in DOMAIN adj THEN adj[r] ELSE {}]
\* The rows whose depth >= 1 input has been assembled.
Assembled == {i \in Rows : pc \in {"loop", "project", "done", "error"} /\ cur_depth >= 1
                           /\ Len(autoencoder_inputs[i]) >= 2
                           /\ autoencoder_inputs[i][1].k # "zero"}
RelationBlocksOf(i) == SubSeq(autoencoder_inputs[i], 2, Len(autoencoder_inputs[i]))
HasSummaryFrom(i, j) ==
    \E n \in DOMAIN autoencoder_inputs[i] :
        /\ autoencoder_inputs[i][n].k = "summ"
        /\ autoencoder_inputs[i][n].obns = <<OwnBottleneck(entities[j])>>
HasSummary(i) == \E n \in DOMAIN autoencoder_inputs[i] : autoencoder_inputs[i][n].k = "summ"
SummaryRows(i) == UNION {rd.nb : rd \in {x \in reads : x.row = i}}

\* The scenario of C2, after depth 1.
C2Scenario ==
    /\ pc \in {"project", "done"}
    /\ schema = {"authored"}
    /\ ConstructedDepth = 1
    /\ depth = 1
    /\ entities = BatchA
    /\ adjacencies = [r \in {"authored"} |-> {<<0, 2>>}]

\* C2 as stated: in the scenario Doc row 2's depth-1 input holds a non-zero
\* summary computed from Person 0's depth-0 bottleneck and from no other row, and
\* Person 1's bottleneck is read for no depth-1 input.
C2_DocSummarizesPerson0 ==
    C2Scenario => /\ HasSummaryFrom(2, 0)
                  /\ SummaryRows(2) = {0}
                  /\ \A rd \in reads : 1 \notin rd.nb

\* C2 amended: in the scenario it is Person row 0's depth-1 input that holds a
\* non-zero summary, computed from Doc 2's depth-0 bottleneck and from no other
\* row; Person 1's bottleneck is read for no depth-1 input; and without reverse
\* propagation Doc row 2's depth-1 input holds no relation block at all.
C2_PersonSummarizesDoc2 ==
    C2Scenario => /\ HasSummaryFrom(0, 2)
                  /\ SummaryRows(0) = {2}
                  /\ \A rd \in reads : 1 \notin rd.nb
                  /\ ~reverse_relations => RelationBlocksOf(2) = <<ZeroBlock(0)>>
C2_Witness == C2Scenario /\ pc = "done" /\ HasSummary(0)

\* C3: with depth 0 the returned bottleneck of every row and the projected row
\* every reconstruction is decoded from are functions of the row's own type and
\* field value, whatever the Adjacency; and whether forward fails is decided by
\* the model alone.
C3_DepthZeroIgnoresAdjacency ==
    /\ (pc = "done" /\ depth = 0) =>
          /\ \A i \in Rows : /\ bottlenecks[i] = OwnBottleneck(entities[i])
                             /\ resized[i] = OwnProjection(entities[i])
                             /\ \A f \in {"name", "title"} :
                                   reconstructions(f, i) =
                                      FieldDecoder(f, OwnProjection(entities[i]))
          /\ bottleneck_size # NONE
          /\ \A i \in Rows :
                projector_sizes[entities[i].type] =
                   boundary_sizes(base_entity_representation_size, entities[i].type)
    /\ (pc = "error" /\ depth = 0) =>
          \/ bottleneck_size = NONE
          \/ \E i \in Rows :
                projector_sizes[entities[i].type] #
                   boundary_sizes(base_entity_representation_size, entities[i].type)
C3_Witness ==
    /\ pc = "done"
    /\ depth = 0
    /\ \E r \in DOMAIN adjacencies : adjacencies[r] # {}

\* C4: at depth >= 1 the block of a relation with no edges in the batch (its
\* matrix all-false, or its name not in Adjacency) is zero and bottleneck_size
\* wide in every row's input, a relation left out gives the blocks an all-false
\* matrix gives, and forward on a model run at the depth it was built for with a
\* bottleneck size raises no error.
C4_NoEdgesZeroBlock ==
    /\ \A i \in Assembled : \A n \in DOMAIN DeclaredRelations(entities[i].type) :
          NoEdges(DeclaredRelations(entities[i].type)[n])
             => RelationBlocksOf(i)[n] = ZeroBlock(bottleneck_size)
    /\ (pc = "loop" /\ cur_type # "") => \A i \in DOMAIN relation_reps :
          /\ Len(relation_reps[i]) = Len(DeclaredRelations(cur_type))
          /\ \A n \in DOMAIN relation_reps[i] :
                /\ relation_reps[i][n].w = bottleneck_size
                /\ NoEdges(DeclaredRelations(cur_type)[n])
                      => relation_reps[i][n] = ZeroBlock(bottleneck_size)
          /\ relation_reps[i] =
                OtherReps(i, cur_type, schema, reverse_relations, Completed(adjacencies),
                          prev_bottlenecks, bottleneck_size)
    /\ (Built /\ bottleneck_size # NONE /\ depth = ConstructedDepth) => pc # "error"
C4_Witness ==
    /\ pc = "done"
    /\ depth >= 1
    /\ \E r \in schema : r \notin DOMAIN adjacencies
    /\ \E r \in schema \cap DOMAIN adjacencies : adjacencies[r] = {}

\* C5: when forward runs deeper than the K autoencoders a type has, every depth
\* d > K-1 uses autoencoder K-1, every depth d <= K-1 uses autoencoder d, and
\* forward does not fail, for any K >= 1.
C5_ReuseLastAutoencoder ==
    Built =>
      /\ \A u \in ae_used :
            u.idx = (IF u.d > Len(ae_input_sizes[u.t]) - 1
                     THEN Len(ae_input_sizes[u.t]) - 1 ELSE u.d)
      /\ (bottleneck_size # NONE /\ depth > ConstructedDepth) => pc # "error"

\* C8: constructing with an empty shape sequence fails whenever depth > 0 and
\* succeeds when depth = 0, for every schema.
C8_EmptyShapesFailIffDepthPositive ==
    (pc # "new" /\ bottleneck_size = NONE) => ((ConstructedDepth > 0) <=> (pc = "failed"))

\* C9: the neighbour set summarized for row i and an incoming relation r is
\* {j : adjacency[r][j][i]}, and for an outgoing relation r {j : adjacency[r][i][j]}.
C9_ReverseReadsTranspose ==
    \A rd \in reads :
        rd.nb = IF rd.dir = "in"
                THEN {j \in Rows : <<j, rd.row>> \in adjacencies[rd.rel]}
                ELSE {j \in Rows : <<rd.row, j>> \in adjacencies[rd.rel]}

\* C10: within a depth d >= 1 no relation summary reads a bottleneck row written
\* during depth d, so the relation blocks and the inputs assembled at depth d are
\* those computed from the tensors as they stood when the depth began, in whatever
\* order the entity types and the rows of a type are processed.
C10_NoReadOfCurrentDepth ==
    /\ \A rd \in reads : \A s \in rd.src : s[2] < rd.d
    /\ pc = "loop" =>
          LET source == SummarySource([val |-> prev_bottlenecks],
                                      [val |-> depth_start.bottlenecks])
              blocks(i) == OtherReps(i, entities[i].type, schema, reverse_relations,
                                     adjacencies, source.val, bottleneck_size)
          IN  /\ cur_type # "" => \A i \in DOMAIN relation_reps : relation_reps[i] = blocks(i)
              /\ \A i \in Rows : entities[i].type \in done_types =>
                    autoencoder_inputs[i] =
                       DepthInput(depth_start.outputs[i],
                                  ae_input_sizes[entities[i].type][1], blocks(i))
C10_Witness ==
    /\ pc = "loop"
    /\ \E rd \in reads : /\ rd.d = cur_depth
                         /\ entities[rd.row].type = cur_type
                         /\ \E j \in rd.nb : bver[j] = cur_depth
\* C6: on a CategoricalField or SequentialField, encode(decode(encode(v))) raises
\* nothing and equals encode(v); stated for the raw values the field has
\* observed, the reading of "every raw value" most favourable to the code.
C6_RoundTrip ==
    (rt.op = "roundtrip" /\ rt.known) => (~rt.raised /\ rt.again = rt.first)

\* C7: observing a value a second time in a row does not raise and leaves the
\* statistics as the first observation left them.
C7_ObserveIdempotent ==
    (last.op = "observe" /\ prev.op = "observe" /\ ~prev.raised /\ last.v = prev.v)
        => (~last.raised /\ Stats = prev.stats)

\* The summarizer side and the relation of the n-th relation block of a row of
\* type t when outgoing relations use side out and incoming ones side inc.
BlockLabels(t, out, inc) ==
    [n \in DOMAIN DeclaredRelations(t) |->
        [side |-> IF n <= Len(relation_fields(schema, t)) THEN out ELSE inc,
         rel  |-> DeclaredRelations(t)[n]]]
\* The summaries among blocks carry the labels, position by position.
Labelled(blocks, labels) ==
    IF labels = <<>> THEN blocks \in {<<>>, <<ZeroBlock(0)>>}
    ELSE /\ Len(blocks) = Len(labels)
         /\ \A n \in DOMAIN blocks :
               blocks[n].k = "summ" => /\ blocks[n].side = labels[n].side
                                       /\ blocks[n].rel = labels[n].rel
\* Every relation block assembled so far, of the finished inputs and of the
\* current type's rows, carries the labels of sides out and inc.
SummariesLabelled(out, inc) ==
    /\ \A i \in Assembled :
          Labelled(RelationBlocksOf(i), BlockLabels(entities[i].type, out, inc))
    /\ (pc = "loop" /\ cur_type # "") =>
          \A i \in DOMAIN relation_reps :
              Labelled(relation_reps[i], BlockLabels(cur_type, out, inc))

\* C11 as stated: at every depth >= 1 the summary of an outgoing relation r is
\* computed by r's source-side summarizer and that of an incoming relation r by
\* r's target-side summarizer, and a row's summaries are concatenated with the
\* outgoing relations first, in declared order, then the incoming ones.
C11_SourceSideForOutgoing == SummariesLabelled("source", "target")

\* C11 amended: at every depth >= 1 the summary of an outgoing relation r is
\* computed by r's target-side summarizer (relation_target_summarizers[r]) and
\* that of an incoming relation r by r's source-side summarizer
\* (relation_source_summarizers[r]), and a row's summaries are concatenated with
\* the outgoing relations first, in declared order, then the incoming ones.
C11_TargetSideForOutgoing == SummariesLabelled("target", "source")
\* A finished forward in reverse mode in which one row's input holds a summary
\* of an outgoing relation followed by a summary of an incoming one.
C11_Witness ==
    /\ pc = "done"
    /\ reverse_relations
    /\ \E i \in Assembled : \E m, n \in DOMAIN RelationBlocksOf(i) :
          /\ m < n
          /\ RelationBlocksOf(i)[m].k = "summ"
          /\ RelationBlocksOf(i)[n].k = "summ"
          /\ m <= Len(relation_fields(schema, entities[i].type))
          /\ n > Len(relation_fields(schema, entities[i].type))

\* The rows whose latest assembled input is the depth-0 input (it begins with
\* the zero base block).
Depth0Assembled == {i \in DOMAIN autoencoder_inputs : autoencoder_inputs[i][1].k = "zero"}

\* C12: for every entity type t and every configured base width b, the depth-0
\* input forward assembles for a row of t is as wide as the boundary size of
\* construction, b plus the output sizes of t's data fields, which is the
\* input width of t's depth-0 autoencoder.
C12_Depth0WidthIsBoundarySize ==
    Built => \A i \in Depth0Assembled :
        /\ Width(autoencoder_inputs[i]) =
              boundary_sizes(base_entity_representation_size, entities[i].type)
        /\ Width(autoencoder_inputs[i]) = ae_input_sizes[entities[i].type][1]

\* The entry of field f at row i is the one that stands for no value: the field
\* is not of the row's type, or the entry is NaN (leading token 0 for a
\* sequential field).
AbsentEntry(i, f) ==
    \/ f \notin Range(data_fields(entities[i].type))
    \/ entities[i].val = (IF type_name(f) = "sequential" THEN 0 ELSE NaN)

\* C13: after field encoding, for every data field f and row i of the batch,
\* the presence mask of f is false at i exactly when the entry is the absent
\* one, row i of f's encoding tensor is the zero row of output_size(f) columns
\* whenever the mask is false at i, the encoder of f is run on rows where the
\* mask is true only, and a field absent on all rows has an all-false mask, an
\* all-zero encoding tensor and no encoder call; the depth-0 input of a row
\* holds these encodings.
C13_AbsentRowsZero ==
    DOMAIN field_tensors # {} =>
      \A f \in Range(DataFields) :
         LET ft == field_tensors[f]
         IN  /\ \A i \in Rows :
                   /\ ft.masks[i] = ~AbsentEntry(i, f)
                   /\ ~ft.masks[i] => ft.encodings[i] = ZeroBlock(output_size(f))
                   /\ ft.masks[i] => ft.encodings[i] = FieldEncoder(f, entities[i].val)
             /\ \A rows \in ft.encoder_calls : \A i \in rows : ft.masks[i]
             /\ (\A i \in Rows : AbsentEntry(i, f)) =>
                   /\ \A i \in Rows : ~ft.masks[i]
                   /\ \A i \in Rows : ft.encodings[i] = ZeroBlock(output_size(f))
                   /\ ft.encoder_calls = {}
             /\ \A i \in Depth0Assembled : \A n \in DOMAIN data_fields(entities[i].type) :
                   data_fields(entities[i].type)[n] = f =>
                      autoencoder_inputs[i][n + 1] = ft.encodings[i]
\* A forward on a batch where one field is absent on every row and another is
\* present on one row and absent on another of its type.
C13_Witness ==
    /\ pc = "done"
    /\ \E f \in Range(DataFields) : \A i \in Rows : ~field_tensors[f].masks[i]
    /\ \E f \in Range(DataFields) : \E i, j \in Rows :
          /\ entities[i].type = entities[j].type
          /\ f \in Range(data_fields(entities[i].type))
          /\ field_tensors[f].masks[i]
          /\ ~field_tensors[f].masks[j]
          /\ field_tensors[f].encoder_calls = {{i}}

\* The keys a raw value of the field puts in the tables.
KeysOf(v) == IF fkind = "categorical" THEN {v} ELSE Range(v)
HasTables == fkind \in {"categorical", "sequential"}

\* C14: after any sequence of observe_value calls on a CategoricalField or a
\* SequentialField, rlookup[lookup[v]] = v for every key v of the table (every
\* observed value and the missing entry), the indices are exactly
\* 0..len(lookup)-1 with 0 the index of the missing entry, the value just
\* observed is in the table, and the index of a value in the table before the
\* last call is the one it has after it.
C14_LookupsInverse ==
    HasTables =>
      /\ \A v \in DOMAIN lookup : lookup[v] \in DOMAIN rlookup /\ rlookup[lookup[v]] = v
      /\ {lookup[v] : v \in DOMAIN lookup} = 0..(Cardinality(DOMAIN lookup) - 1)
      /\ DOMAIN rlookup = 0..(Cardinality(DOMAIN lookup) - 1)
      /\ lookup[IF fkind = "categorical" THEN MissingKey ELSE NoneKey] = 0
      /\ last.op = "observe" => KeysOf(last.v) \subseteq DOMAIN lookup
      /\ prev.op # "none" =>
            \A v \in DOMAIN prev.stats.lookup :
                v \in DOMAIN lookup /\ lookup[v] = prev.stats.lookup[v]
\* A value observed again after another value had been observed since.
C14_Witness ==
    /\ HasTables
    /\ last.op = "observe"
    /\ Cardinality(DOMAIN lookup) >= 3
    /\ \E v \in KeysOf(last.v) :
          /\ v \in DOMAIN prev.stats.lookup
          /\ prev.stats.lookup[v] < Cardinality(DOMAIN lookup) - 1
====
